---- MODULE Spec2Model ----
(***************************************************************************)
(* Model of the discovery orchestrator (tools/discover_frontier_v2.py),    *)
(* its surface strategies (discovery/surfaces.py), the frontier store      *)
(* (discovery/io.py, discovery/common.py), the entry navigation            *)
(* (discovery/browser.py), the author verifier (discovery/verifier.py)     *)
(* and the URL normalisation helpers (discovery/common.py).                *)
(*                                                                         *)
(* Strings are sequences of tokens; a token stands for a run of characters *)
(* that no modelled operation ever splits ("https", "www.facebook.com",    *)
(* "/", "?", ...).                                                         *)
(***************************************************************************)
EXTENDS Integers, Sequences, FiniteSets, TLC

(* ---------------------------------------------------------------- bounds *)

\* number of successive runs of the orchestrator on the same output file
MaxRuns == 2
\* largest --max-scrolls a run is started with
MaxScrolls == 2
\* largest --max-posts a run is started with
MaxPosts == 1
\* longest location string, in tokens, canonicalize_url is applied to
MaxUrlLen == 4
\* most links a page handed to verify_author holds
MaxLinks == 2
\* checkpoint writes of the status file a reader runs alongside
MaxWrites == 3
\* pieces in which the text of one checkpoint reaches the disk
TextChunks == 2

(* ------------------------------------------------------------- constants *)

\* goto_with_retries(page, entry, dbg_dir, "entry", tries=4)
EntryTries == 4
\* page_dump of the first three verified posts: len(verified_post_ids) <= 3
VerifiedDumpLimit == 3

(* ---------------------------------------------------------------- inputs *)

\* candidate post ids the mocked surface can show (digit strings)
PostIds == {"10", "11"}
\* parent-surface ids a run can be started for
GroupIds == {"5"}
\* what the anchors of one rendered page resolve to, before de-duplication
PageHrefs == {<<>>, <<"10">>, <<"11">>, <<"10", "11">>, <<"11", "10">>, <<"10", "10">>}
\* the pages and verification results of the replayed (mocked) surface
ReplayHrefs == {<<>>, <<"10">>, <<"11">>, <<"10", "11">>}
ReplayOutcomes == {"wall", "uid", "none"}
\* values of --stop-after-no-new
NoNewChoices == {1, 2}
\* the surface strategies main() can drive
Modes == {"group_search", "profile_group_posts", "feed"}

NoUrl == <<>>
NoPid == ""
NoStats == [written |-> FALSE]

(* ------------------------------------------------- normalisation helpers *)

\* mutant of canonical_group_post_url: the post id is left out
canonical_group_url_only(group_id, post_id) ==
    <<"https", ":", "/", "/", "www.facebook.com", "/", "groups", "/", group_id, "/">>

\* common.py 69-70
canonical_group_post_url(group_id, post_id) ==
    <<"https", ":", "/", "/", "www.facebook.com", "/", "groups", "/", group_id,
      "/", "posts", "/", post_id, "/">>

RECURSIVE stable_dedupe_in_order(_)
stable_dedupe_in_order(items) ==
    IF items = <<>> THEN <<>>
    ELSE LET init == stable_dedupe_in_order(SubSeq(items, 1, Len(items) - 1))
             x    == items[Len(items)]
         IN  IF \E i \in 1..Len(init) : init[i] = x THEN init ELSE Append(init, x)

\* mutant of NewOf: the strategy yields every id of the page at every step
NewOf_all(pids, seen) == pids

\* the "new" list a strategy builds from the page's ids and its seen set
RECURSIVE NewOf(_, _)
NewOf(pids, seen) ==
    IF pids = <<>> THEN <<>>
    ELSE IF Head(pids) \in seen THEN NewOf(Tail(pids), seen)
         ELSE <<Head(pids)>> \o NewOf(Tail(pids), seen \cup {Head(pids)})

Range(s) == {s[i] : i \in 1..Len(s)}

(* ------------------------------------------------------ location strings *)

\* the tokens location strings are spelled with are the delimiters / ? # ; :
\* = & and runs of letters, digits and dots
Upper == {"HTTP", "JOHN"}
Digits == {"100", "200", "7", "5", "10", "11"}
Words ==
    {"http", "https", "x", "www.facebook.com", "john", "ny", "mary", "profile.php",
     "groups", "user", "posts", "id", "ref", "mygroup"} \cup Upper \cup Digits

\* str.lower()
LowerToken(t) ==
    IF t = "HTTP" THEN "http" ELSE IF t = "JOHN" THEN "john" ELSE t

lower(str) == [i \in 1..Len(str) |-> LowerToken(str[i])]

\* str.find(c, start) and str.rfind(c), 1-based, 0 when c does not occur
find(str, c, start) ==
    LET hits == {i \in start..Len(str) : str[i] = c}
    IN  IF hits = {} THEN 0 ELSE CHOOSE i \in hits : \A j \in hits : i <= j

rfind(str, c) ==
    LET hits == {i \in 1..Len(str) : str[i] = c}
    IN  IF hits = {} THEN 0 ELSE CHOOSE i \in hits : \A j \in hits : i >= j

startswith(str, prefix) ==
    Len(str) >= Len(prefix) /\ SubSeq(str, 1, Len(prefix)) = prefix

endswith(str, suffix) ==
    /\ Len(str) >= Len(suffix)
    /\ SubSeq(str, Len(str) - Len(suffix) + 1, Len(str)) = suffix

\* needle in str
contains(str, needle) ==
    \E i \in 1..(Len(str) - Len(needle) + 1) :
        SubSeq(str, i, i + Len(needle) - 1) = needle

\* urllib.parse: the entries of uses_netloc and of uses_params the tokens can
\* spell ('', http and https are in both lists; x is in neither)
uses_netloc == {<<>>, <<"http">>, <<"https">>}
uses_params == {<<>>, <<"http">>, <<"https">>}

\* urllib.parse._splitnetloc(url, start)
splitnetloc(url, start) ==
    LET ends  == {i \in start..Len(url) : url[i] \in {"/", "?", "#"}}
        delim == IF ends = {} THEN Len(url) + 1
                 ELSE CHOOSE i \in ends : \A j \in ends : i <= j
    IN  [netloc |-> SubSeq(url, start, delim - 1),
         rest   |-> SubSeq(url, delim, Len(url))]

\* urllib.parse.urlsplit, lines 462-468: i is url.find(":"); the text before
\* it is the scheme when it starts with a letter and has scheme characters only
SplitScheme(url, i) ==
    IF /\ i > 1
       /\ url[1] \in Words \ Digits
       /\ \A k \in 1..(i - 1) : url[k] \in Words
    THEN [scheme |-> lower(SubSeq(url, 1, i - 1)), rest |-> SubSeq(url, i + 1, Len(url))]
    ELSE [scheme |-> <<>>, rest |-> url]

\* lines 470-471: if url[:2] == '//': netloc, url = _splitnetloc(url, 2)
SplitAuthority(s) ==
    IF startswith(s.rest, <<"/", "/">>)
    THEN [scheme |-> s.scheme] @@ splitnetloc(s.rest, 3)
    ELSE [scheme |-> s.scheme, netloc |-> <<>>, rest |-> s.rest]

\* lines 475-476: url, fragment = url.split('#', 1); h is url.find("#")
SplitFragment(s, h) ==
    [scheme   |-> s.scheme,
     netloc   |-> s.netloc,
     rest     |-> IF h > 0 THEN SubSeq(s.rest, 1, h - 1) ELSE s.rest,
     fragment |-> IF h > 0 THEN SubSeq(s.rest, h + 1, Len(s.rest)) ELSE <<>>]

FragmentOf(s) == SplitFragment(s, find(s.rest, "#", 1))

\* lines 477-478: url, query = url.split('?', 1); q is url.find("?")
SplitQuery(s, q) ==
    [scheme   |-> s.scheme,
     netloc   |-> s.netloc,
     path     |-> IF q > 0 THEN SubSeq(s.rest, 1, q - 1) ELSE s.rest,
     query    |-> IF q > 0 THEN SubSeq(s.rest, q + 1, Len(s.rest)) ELSE <<>>,
     fragment |-> s.fragment]

QueryOf(s) == SplitQuery(s, find(s.rest, "?", 1))

\* urllib.parse.urlsplit(url), CPython 3.11
urlsplit(url) ==
    QueryOf(FragmentOf(SplitAuthority(SplitScheme(url, find(url, ":", 1)))))

\* urllib.parse._splitparams(url)
splitparams(url) ==
    LET i == IF "/" \in Range(url) THEN find(url, ";", rfind(url, "/"))
             ELSE find(url, ";", 1)
    IN  IF i = 0 THEN [path |-> url, params |-> <<>>]
        ELSE [path |-> SubSeq(url, 1, i - 1), params |-> SubSeq(url, i + 1, Len(url))]

\* urllib.parse.urlparse, lines 388-392
ParamsOf(sr) ==
    [scheme |-> sr.scheme, netloc |-> sr.netloc, query |-> sr.query,
     fragment |-> sr.fragment]
    @@ (IF sr.scheme \in uses_params /\ ";" \in Range(sr.path)
        THEN splitparams(sr.path)
        ELSE [path |-> sr.path, params |-> <<>>])

\* urllib.parse.urlparse(url)
urlparse(url) == ParamsOf(urlsplit(url))

\* urllib.parse.urlunsplit(components), CPython 3.11
urlunsplit(scheme, netloc, url, query, fragment) ==
    LET u1 == IF \/ netloc # <<>>
                 \/ ( /\ scheme # <<>> /\ scheme \in uses_netloc
                      /\ ~startswith(url, <<"/", "/">>) )
              THEN <<"/", "/">> \o netloc
                   \o (IF url # <<>> /\ url[1] # "/" THEN <<"/">> \o url ELSE url)
              ELSE url
        u2 == IF scheme # <<>> THEN scheme \o <<":">> \o u1 ELSE u1
        u3 == IF query # <<>> THEN u2 \o <<"?">> \o query ELSE u2
    IN  IF fragment # <<>> THEN u3 \o <<"#">> \o fragment ELSE u3

\* urllib.parse.urlunparse(components)
urlunparse(p) ==
    urlunsplit(p.scheme, p.netloc,
               IF p.params # <<>> THEN p.path \o <<";">> \o p.params ELSE p.path,
               p.query, p.fragment)

\* common.py 48-49: if not u.endswith("/"): u += "/"
WithSlash(u) == IF endswith(u, <<"/">>) THEN u ELSE u \o <<"/">>

\* common.py 44-50
canonicalize_url(url) ==
    LET p     == urlparse(url)
        clean == [p EXCEPT !.query = <<>>, !.fragment = <<>>]
    IN  WithSlash(urlunparse(clean))

\* common.py 53-59 (urlparse and urlunparse raise on none of these strings)
strip_query_fragment(url) ==
    LET p == urlparse(url)
    IN  urlunparse([p EXCEPT !.query = <<>>, !.fragment = <<>>])

(* ------------------------------------------------------- author verifier *)

\* str.replace("http://", "https://")
RECURSIVE replace_http(_)
replace_http(str) ==
    IF str = <<>> THEN <<>>
    ELSE IF startswith(str, <<"http", ":", "/", "/">>)
    THEN <<"https", ":", "/", "/">> \o replace_http(SubSeq(str, 5, Len(str)))
    ELSE <<Head(str)>> \o replace_http(Tail(str))

\* str.rstrip("/") and str.strip("/")
rstrip(str) ==
    LET keep == {i \in 1..Len(str) : str[i] # "/"}
    IN  IF keep = {} THEN <<>>
        ELSE SubSeq(str, 1, CHOOSE i \in keep : \A j \in keep : i >= j)

strip(str) ==
    LET keep == {i \in 1..Len(str) : str[i] # "/"}
    IN  IF keep = {} THEN <<>>
        ELSE SubSeq(str, CHOOSE i \in keep : \A j \in keep : i <= j,
                         CHOOSE i \in keep : \A j \in keep : i >= j)

isdigit(str) == str # <<>> /\ \A i \in 1..Len(str) : str[i] \in Digits

\* the longest run of digits of str that starts at position i
DigitRun(str, i) ==
    LET stops == {j \in i..Len(str) : str[j] \notin Digits}
        stop  == IF stops = {} THEN Len(str) + 1
                 ELSE CHOOSE j \in stops : \A k \in stops : j <= k
    IN  SubSeq(str, i, stop - 1)

\* common.py 73-78
normalize_target_slug(target_profile_url) ==
    LET path == strip(urlparse(target_profile_url).path)
    IN  IF startswith(lower(path), <<"profile.php">>) THEN <<>> ELSE path

\* common.py 81-84
href_to_abs(h) ==
    IF startswith(h, <<"/">>) THEN <<"https", ":", "/", "/", "www.facebook.com">> \o h
    ELSE h

\* urllib.parse.parse_qs(query).get("id", [])[0], <<>> when there is none:
\* the value of the first name=value field, fields separated by &, whose name
\* is id and whose value is not blank
QueryId(query) ==
    LET starts == {i \in 1..Len(query) : i = 1 \/ query[i - 1] = "&"}
        fieldEnd(i) == LET amps == {j \in i..Len(query) : query[j] = "&"}
                       IN  IF amps = {} THEN Len(query)
                           ELSE (CHOOSE j \in amps : \A k \in amps : j <= k) - 1
        isId(i) == /\ i + 2 <= fieldEnd(i)
                   /\ query[i] = "id" /\ query[i + 1] = "="
        ids == {i \in starts : isId(i)}
    IN  IF ids = {} THEN <<>>
        ELSE LET i == CHOOSE i \in ids : \A j \in ids : i <= j
             IN  SubSeq(query, i + 2, fieldEnd(i))

\* PROFILE_ID_RE.search(abs_h): profile\.php\?id=(\d+), ignoring case
ProfileIdSearch(abs_h) ==
    LET l    == lower(abs_h)
        hits == {i \in 1..(Len(l) - 4) :
                    /\ SubSeq(l, i, i + 3) = <<"profile.php", "?", "id", "=">>
                    /\ l[i + 4] \in Digits}
    IN  IF hits = {} THEN <<>>
        ELSE DigitRun(abs_h, (CHOOSE i \in hits : \A j \in hits : i <= j) + 4)

\* common.py 87-101; <<>> stands for None
extract_profile_id_from_href(h) ==
    LET abs_h == href_to_abs(h)
        p     == urlparse(abs_h)
        v     == QueryId(p.query)
    IN  IF endswith(lower(p.path), <<"/", "profile.php">>) /\ isdigit(v) THEN v
        ELSE ProfileIdSearch(abs_h)

\* verifier.py 45-65. The markup holds at most one actorID field: its encoding
\* (bare number or quoted string), its digits, and whether the character after
\* the literal is a word character or a delimiter (or the end of the markup).
\* _ACTORID_NUM ends with \b after the digits of uid; _ACTORID_STR ends with \b
\* after the closing quote.
html_actorid_match(page, target_uid) ==
    /\ target_uid # <<>>
    /\ page.markup.kind = "actor"
    /\ \/ /\ page.markup.enc = "num"
          /\ page.markup.value = target_uid
          /\ page.markup.after = "delim"
       \/ /\ page.markup.enc = "str"
          /\ page.markup.value = target_uid
          /\ page.markup.after = "word"

VerificationResult(verified, method, author_uid_found) ==
    [verified |-> verified, method |-> method, author_uid_found |-> author_uid_found]

\* verifier.py 89 and 121
NormHref(hh_abs) == lower(rstrip(replace_http(strip_query_fragment(hh_abs))))

\* the three tests verify_author applies to a link (verifier.py 91-103 and
\* 123-138): the method of the first that succeeds, "none" when none does
HrefTest(h, t_uid, t_full, t_slug) ==
    LET hh_abs  == href_to_abs(h)
        hh_norm == NormHref(hh_abs)
        uid     == extract_profile_id_from_href(hh_abs)
    IN  IF uid # <<>> /\ t_uid # <<>> /\ uid = t_uid THEN "uid"
        ELSE IF t_full # <<>> /\ contains(hh_norm, t_full) THEN "profile_url"
        ELSE IF t_slug # <<>> /\ contains(urlparse(hh_norm).path, <<"/">> \o t_slug)
        THEN "slug"
        ELSE "none"

\* next(iter(found_uids)) if found_uids else None: the values it can have
FirstOf(found_uids) == IF found_uids = {} THEN {<<>>} ELSE found_uids

\* a scan that reports the strongest test any link satisfies instead of
\* returning at the first link that satisfies one
ScanHrefs_strongest(hrefs, found_uids, t_uid, t_full, t_slug) ==
    LET tests == {HrefTest(hrefs[i], t_uid, t_full, t_slug) : i \in 1..Len(hrefs)}
    IN  IF "uid" \in tests THEN VerificationResult(TRUE, "uid", {t_uid})
        ELSE IF "profile_url" \in tests
        THEN VerificationResult(TRUE, "profile_url", FirstOf(found_uids))
        ELSE IF "slug" \in tests THEN VerificationResult(TRUE, "slug", FirstOf(found_uids))
        ELSE VerificationResult(FALSE, "none", FirstOf(found_uids))

\* verifier.py 116-140: the scan of all links
RECURSIVE ScanHrefs(_, _, _, _, _)
ScanHrefs(hrefs, found_uids, t_uid, t_full, t_slug) ==
    IF hrefs = <<>> THEN VerificationResult(FALSE, "none", FirstOf(found_uids))
    ELSE LET uid   == extract_profile_id_from_href(href_to_abs(Head(hrefs)))
             found == IF uid # <<>> THEN found_uids \cup {uid} ELSE found_uids
             test  == HrefTest(Head(hrefs), t_uid, t_full, t_slug)
         IN  IF test = "uid" THEN VerificationResult(TRUE, "uid", {uid})
             ELSE IF test # "none" THEN VerificationResult(TRUE, test, FirstOf(found))
             ELSE ScanHrefs(Tail(hrefs), found, t_uid, t_full, t_slug)

\* verifier.py 68-140. page.author is the link _get_first_authorish_href
\* returns (<<>> for None), page.hrefs what eval_on_selector_all returns
\* (<<>> also when it raises). author_uid_found is the set of values the result
\* can carry.
verify_author(page, target_profile_url, target_uid) ==
    LET t_uid  == target_uid
        t_full == lower(strip_query_fragment(rstrip(replace_http(target_profile_url))))
        t_slug == lower(normalize_target_slug(target_profile_url))
        h0     == page.author
        test0  == IF h0 = <<>> THEN "none" ELSE HrefTest(h0, t_uid, t_full, t_slug)
        uid0   == IF h0 = <<>> THEN <<>>
                  ELSE extract_profile_id_from_href(href_to_abs(h0))
    IN  IF t_uid # <<>> /\ html_actorid_match(page, t_uid)
        THEN VerificationResult(TRUE, "uid", {t_uid})
        ELSE IF test0 # "none" THEN VerificationResult(TRUE, test0, {uid0})
        ELSE ScanHrefs(page.hrefs, {}, t_uid, t_full, t_slug)

(* --------------------------------------------------------- frontier store *)

\* a line of the output file written by append_jsonl
Row(group_id, pid, run, scroll_index, order, attempt, method, mode) ==
    [kind |-> "rec", post_id |-> pid,
     canonical_url |-> canonical_group_post_url(group_id, pid),
     group_id |-> group_id, run |-> run, scrolls |-> scroll_index,
     discovered_order |-> order, verify_attempt |-> attempt,
     verification_method |-> method, method |-> mode]

\* lines a file of an earlier program version or a damaged file can hold
OldRow(group_id, pid, url) ==
    [kind |-> "rec", post_id |-> pid, canonical_url |-> url,
     group_id |-> group_id, run |-> 0, scrolls |-> 0,
     discovered_order |-> 0, verify_attempt |-> 0,
     verification_method |-> "uid", method |-> "group_search"]

OtherLine(kind) ==
    [kind |-> kind, post_id |-> NoPid, canonical_url |-> NoUrl,
     group_id |-> "", run |-> 0, scrolls |-> 0,
     discovered_order |-> 0, verify_attempt |-> 0,
     verification_method |-> "none", method |-> ""]

\* json.loads fails on the line (or the line is blank): the line is skipped
SkippedLine(line) == line.kind \in {"blank", "garbage"}
\* json.loads succeeds with a value that has no .get: AttributeError
RaisingLine(line) == line.kind = "nonobj"

UrlOfLine(line) == IF line.canonical_url # NoUrl THEN {line.canonical_url} ELSE {}
PidOfLine(line) == IF line.post_id # NoPid THEN {line.post_id} ELSE {}

\* mutants of load_existing_frontier: a load that reads nothing, and a load
\* that stops after the first line
load_nothing(lines) == [raised |-> FALSE, urls |-> {}, pids |-> {}]

load_first_line(lines) ==
    IF lines = <<>> \/ SkippedLine(Head(lines)) \/ RaisingLine(Head(lines))
    THEN [raised |-> FALSE, urls |-> {}, pids |-> {}]
    ELSE [raised |-> FALSE, urls |-> UrlOfLine(Head(lines)),
          pids |-> PidOfLine(Head(lines))]

RECURSIVE load_existing_frontier(_)
load_existing_frontier(lines) ==
    IF lines = <<>> THEN [raised |-> FALSE, urls |-> {}, pids |-> {}]
    ELSE LET line == Head(lines)
             rest == load_existing_frontier(Tail(lines))
         IN  IF SkippedLine(line) THEN rest
             ELSE IF RaisingLine(line) THEN [rest EXCEPT !.raised = TRUE]
             ELSE [raised |-> rest.raised,
                   urls   |-> UrlOfLine(line) \cup rest.urls,
                   pids   |-> PidOfLine(line) \cup rest.pids]

\* mutant of append_jsonl: the row never reaches the file
append_lost(lines, row) == lines

\* mutant of append_jsonl: the file is opened for writing, not for appending
append_truncating(lines, row) == <<row>>

\* mutant of append_jsonl: the row is written in front of the existing lines
append_front(lines, row) == <<row>> \o lines

\* mutant of append_jsonl: the line is written twice
append_twice(lines, row) == Append(Append(lines, row), row)

append_jsonl(lines, row) == Append(lines, row)

\* output files a first run can find
InitFiles ==
    { <<>>,
      <<OldRow("5", "11", canonical_group_post_url("5", "11")),
        OldRow("5", NoPid, canonical_group_post_url("5", "10"))>>,
      <<OldRow("5", "10", NoUrl), OtherLine("garbage")>>,
      <<OtherLine("blank"), OldRow("5", "10", canonical_group_post_url("5", "10"))>>,
      <<OtherLine("nonobj")>> }

\* what a later run can read of a line: a record's dedupe keys. The evidence
\* of a record is written once and never read back by the program.
AsRead(line) ==
    IF line.kind = "rec" THEN OldRow(line.group_id, line.post_id, line.canonical_url)
    ELSE line

(* ------------------------------------------------------------------ state *)

VARIABLES
    pc,                 \* where the current run of main() stands
    exit_code,          \* the exit code of the run that ended, -1 while running
    runNo,              \* runs started so far (the run id)
    args,               \* the arguments and Budget of the current run
    file,               \* the lines of the output file (--out)
    statsFile,          \* stats.json of the current run's debug directory
    existing_urls,      \* main: existing_urls
    existing_post_ids,  \* main: existing_post_ids
    stats,              \* main: stats (RunStats)
    discovered_order,   \* main: discovered_order
    seen_post_ids,      \* main: seen_post_ids
    verified_post_ids,  \* main: verified_post_ids
    surf,               \* the locals of the suspended strategy generator
    new_pids,           \* candidates of the current step still to process
    expired,            \* (time.time() - start_ts) / 60 >= budget.max_minutes
    entryTry,           \* goto_with_retries: attempts made
    entryLast,          \* what the last navigation of the entry location met
    plan,               \* the scenario: number of runs, replayed surface or not
    fxPages,            \* replay: the page each step rendered
    fxVerify,           \* replay: what verification of each id met
    verifyNavs,         \* safe_goto calls on verify_page in this run
    verifyCalls,        \* verify_author calls in this run
    startFile,          \* the file as this run found it after INIT
    durable,            \* dedupe keys of the records whose append completed
    prev,               \* how the previous run ended (killed or not; replay: all)
    allResume,          \* every run so far was started with --resume
    cli,                \* the command line of the current run, as typed
    fault,              \* the operation that raised in this run, if any
    verdict,            \* ids verify_author confirmed / refuted in this run
    probe               \* a helper function under test: its input and results

ctl   == <<pc, exit_code, runNo, args>>
disk  == <<file, statsFile>>
dedup == <<existing_urls, existing_post_ids>>
loopv == <<stats, discovered_order, seen_post_ids, verified_post_ids, surf, new_pids,
           verdict>>
env   == <<expired, entryTry>>
scn   == <<plan, cli, probe>>
fx    == <<scn, fxPages, fxVerify>>
ghost == <<verifyNavs, verifyCalls, startFile, durable, prev, allResume, fault>>
vars  == <<ctl, disk, dedup, loopv, env, entryLast, fx, ghost>>

BlankStats ==
    [written |-> TRUE, scrolls |-> 0, candidates_seen |-> 0, verify_attempts |-> 0,
     verified_target_posts |-> 0, skipped_existing |-> 0,
     skipped_existing_post_id |-> 0, stopped_reason |-> "none"]

BlankSurf == [seen |-> {}, no_new_streak |-> 0, scroll_index |-> 0, end_seen |-> FALSE]

BlankArgs ==
    [max_posts |-> 0, max_scrolls |-> 0, stop_after_no_new |-> 1,
     resume |-> FALSE, group_id |-> "5", mode |-> "group_search"]

ArgsChoices ==
    [max_posts : 0..MaxPosts, max_scrolls : 0..MaxScrolls,
     stop_after_no_new : NoNewChoices, resume : BOOLEAN,
     group_id : GroupIds, mode : Modes]

UnsetVerify == [p \in PostIds |-> "unset"]

\* what the navigation and the verifier can meet for one candidate
VerifyOutcomes ==
    {"nav_timeout", "nav_exc", "wall", "fb_error", "uid", "profile_url", "slug", "none"}

RunningPcs == {"entry", "iterate", "step", "cand", "ckpt", "final"}
EndedPcs   == {"idle", "done", "exit", "crashed", "killed"}

checkpoint_stats(st) == st

\* the dedupe keys of the complete records of a file
KeysOf(lines) ==
    LET recs == {i \in 1..Len(lines) : lines[i].kind = "rec"}
    IN  [urls |-> {lines[i].canonical_url : i \in recs} \ {NoUrl},
         pids |-> {lines[i].post_id : i \in recs} \ {NoPid}]

NoProbe == [op |-> "none"]

\* no command line: no run has been started
NoCli == [mode |-> "", group_url |-> <<>>, query |-> "", target_uid |-> ""]

NoVerdict == [confirmed |-> {}, refuted |-> {}]

\* the orchestrator before its first run
Idle(p, files) ==
    /\ pc = "idle" /\ exit_code = -1 /\ runNo = 0 /\ args = BlankArgs
    /\ file \in files /\ statsFile = NoStats
    /\ existing_urls = {} /\ existing_post_ids = {}
    /\ stats = BlankStats /\ discovered_order = 0
    /\ seen_post_ids = {} /\ verified_post_ids = {}
    /\ surf = BlankSurf /\ new_pids = <<>>
    /\ expired = FALSE /\ entryTry = 0 /\ entryLast = "none"
    /\ plan = p /\ fxPages = <<>> /\ fxVerify = UnsetVerify
    /\ verifyNavs = 0 /\ verifyCalls = 0 /\ startFile = file
    /\ durable = KeysOf(file)
    /\ prev = [pc |-> "idle", reason |-> "none", exit_code |-> -1]
    /\ allResume = TRUE
    /\ cli = NoCli /\ fault = "none" /\ verdict = NoVerdict

InitWith(p, files) == Idle(p, files) /\ probe = NoProbe

\* one run on any output file, any arguments, any surface
Init == InitWith([runs |-> 1, replay |-> FALSE, cli |-> FALSE], InitFiles)

ResetLoop ==
    /\ stats' = BlankStats /\ discovered_order' = 0
    /\ seen_post_ids' = {} /\ verified_post_ids' = {}
    /\ surf' = BlankSurf /\ new_pids' = <<>>
    /\ expired' = FALSE /\ entryTry' = 0
    /\ verifyNavs' = 0 /\ verifyCalls' = 0
    /\ verdict' = NoVerdict

(* ------------------------------------------------------------------ INIT *)

\* --mode choices of the argument parser (main() 58)
CliModes == {"auto", "group_search", "profile_group_posts", "feed", "global_post_search"}

\* a well-formed --group-url of the parent surface gid
GroupUrl(gid) ==
    <<"https", ":", "/", "/", "www.facebook.com", "/", "groups", "/", gid>>

\* --group-url: not given, blank, well-formed, or without a numeric id
GroupUrls ==
    { <<>>, <<" ">>,
      <<"https", ":", "/", "/", "www.facebook.com", "/", "groups", "/", "mygroup">> }
    \cup {GroupUrl(gid) : gid \in GroupIds}

\* --query: not given or given
Queries == {"", "q"}

\* --target-uid: not given, blank, or a numeric id
TargetUids == {"", " ", "100"}

\* the command lines a run can be started with
AllCli == [mode : CliModes, group_url : GroupUrls, query : Queries,
           target_uid : TargetUids]

\* main() 79: bool(args.group_url.strip())
have_group(c) == \E i \in 1..Len(c.group_url) : c.group_url[i] # " "

\* main() 75: (args.target_uid or "").strip()
target_uid_of(c) == IF c.target_uid = " " THEN "" ELSE c.target_uid

\* common.py 62-66: GROUP_ID_RE.search(group_url), ValueError when no match
parse_group_id(group_url) ==
    LET l    == lower(group_url)
        hits == {i \in 1..(Len(l) - 3) :
                    /\ SubSeq(l, i, i + 2) = <<"/", "groups", "/">>
                    /\ l[i + 3] \in Digits}
    IN  IF hits = {} THEN [raised |-> TRUE, id |-> ""]
        ELSE [raised |-> FALSE,
              id |-> group_url[(CHOOSE i \in hits : \A j \in hits : i <= j) + 3]]

\* main() 37-47; "SystemExit" when the function raises SystemExit
choose_mode(c, hg) ==
    IF c.mode # "auto" THEN c.mode
    ELSE IF hg /\ c.target_uid # "" THEN "profile_group_posts"
    ELSE IF hg /\ c.query # "" THEN "group_search"
    ELSE IF ~hg /\ c.query # "" THEN "global_post_search"
    ELSE "SystemExit"

\* main() 144-164: the mode cannot be entered, main returns 2
ModeRefused(mode, c, hg) ==
    IF mode = "group_search" THEN ~hg \/ c.query = ""
    ELSE IF mode = "profile_group_posts" THEN ~hg \/ target_uid_of(c) = ""
    ELSE IF mode = "feed" THEN ~hg
    ELSE TRUE

\* the arguments of the next run: a replayed run keeps Budget, group and mode
\* and does not overwrite
NextArgs ==
    IF plan.replay /\ runNo > 0
    THEN {a \in ArgsChoices : [a EXCEPT !.resume = args.resume] = args}
    ELSE IF plan.cli
    THEN {a \in ArgsChoices : a.mode = "group_search" /\ ~a.resume}
    ELSE IF plan.runs > 1 THEN {a \in ArgsChoices : a.mode = "group_search"}
    ELSE ArgsChoices

OverwriteChoices == IF (plan.replay /\ runNo > 0) \/ plan.cli THEN {FALSE} ELSE BOOLEAN

\* the command line that names mode and group outright, with query and id
ExplicitCli(a) ==
    [mode |-> a.mode, group_url |-> GroupUrl(a.group_id), query |-> "q",
     target_uid |-> "100"]

CliChoices(a) == IF plan.cli THEN AllCli ELSE {ExplicitCli(a)}

NothingLoaded == [raised |-> FALSE, urls |-> {}, pids |-> {}]

\* main(), lines 72-164: parse arguments, group id, mode, --overwrite, load the
\* frontier when resuming, first checkpoint, mode guards
StartRun ==
    /\ pc = "idle"
    /\ runNo < plan.runs
    /\ \E a \in NextArgs, overwrite \in OverwriteChoices : \E c \in CliChoices(a) :
         LET hg     == have_group(c)
             group  == IF hg THEN parse_group_id(canonicalize_url(c.group_url))
                       ELSE [raised |-> FALSE, id |-> ""]
             mode   == choose_mode(c, hg)
             early  == group.raised \/ mode = "SystemExit"
             f0     == IF overwrite /\ ~early THEN <<>> ELSE file
             loaded == IF a.resume /\ ~early THEN load_existing_frontier(f0)
                       ELSE NothingLoaded
             a1     == IF early THEN BlankArgs
                       ELSE [a EXCEPT !.mode = mode, !.group_id = group.id]
         IN  /\ args' = a1
             /\ cli' = c
             /\ file' = f0
             /\ runNo' = runNo + 1
             /\ startFile' = f0
             /\ durable' = IF overwrite /\ ~early THEN [urls |-> {}, pids |-> {}]
                           ELSE durable
             /\ allResume' = (allResume /\ a.resume)
             /\ ResetLoop
             /\ entryLast' = "none"
             /\ fault' = IF group.raised THEN "parse_group_id"
                         ELSE IF mode = "SystemExit" THEN "choose_mode"
                         ELSE IF loaded.raised THEN "load_existing_frontier"
                         ELSE "none"
             /\ IF early \/ loaded.raised
                THEN /\ pc' = "crashed" /\ exit_code' = 1
                     /\ statsFile' = NoStats
                     /\ existing_urls' = {} /\ existing_post_ids' = {}
                ELSE /\ statsFile' = checkpoint_stats(BlankStats)
                     /\ existing_urls' = loaded.urls
                     /\ existing_post_ids' = loaded.pids
                     /\ IF ModeRefused(mode, c, hg)
                        THEN pc' = "exit" /\ exit_code' = 2
                        ELSE pc' = "entry" /\ exit_code' = -1
    /\ UNCHANGED <<plan, probe, fxPages, fxVerify, prev>>

\* the process is gone and with it its memory; a replayed scenario keeps the
\* arguments for its second run
ArgsAfterEnd == IF plan.replay THEN args ELSE BlankArgs

\* an exception leaves main(): the process ends, its memory is gone
Crash ==
    /\ pc' = "crashed" /\ exit_code' = 1
    /\ args' = ArgsAfterEnd
    /\ existing_urls' = {} /\ existing_post_ids' = {}
    /\ ResetLoop

\* the operation op raises and nothing catches it
Raise(op) == Crash /\ fault' = op

(* ------------------------------------------------------------ LOAD_ENTRY *)

\* what one navigation of the entry location meets: the page loads ("ok"), it
\* loads and shows the login wall, it loads and shows a platform error page,
\* the navigation times out, or it raises
EntryOutcomes ==
    IF plan.replay THEN {"ok"} ELSE {"ok", "login_wall", "fb_error", "timeout", "exc"}

\* one iteration of goto_with_retries (browser.py 56-69) and, when it returns,
\* main() lines 166-182. dumpRaises: page_dump raises where it is not caught.
\* On an error page the first page_dump is inside the try, so its exception
\* reaches "except Exception", whose own page_dump is the one not caught.
EntryTry ==
    /\ pc = "entry"
    /\ \E outcome \in EntryOutcomes, dumpRaises \in BOOLEAN, late \in BOOLEAN :
         /\ entryLast' = outcome
         /\ IF outcome # "ok" /\ dumpRaises
            THEN Raise("page_dump") /\ UNCHANGED statsFile
            ELSE /\ entryTry' = IF outcome = "ok" THEN 0 ELSE entryTry + 1
                 /\ UNCHANGED <<args, dedup, loopv, verifyNavs, verifyCalls, fault>>
                 /\ IF outcome = "login_wall"
                    THEN pc' = "exit" /\ exit_code' = 3
                         /\ statsFile' = checkpoint_stats(stats)
                    ELSE IF outcome = "ok"
                    THEN pc' = "iterate" /\ exit_code' = -1 /\ UNCHANGED statsFile
                    ELSE IF entryTry + 1 = EntryTries
                    THEN pc' = "exit" /\ exit_code' = 3
                         /\ statsFile' = checkpoint_stats(stats)
                    ELSE pc' = "entry" /\ exit_code' = -1 /\ UNCHANGED statsFile
                 /\ expired' = (outcome = "ok" /\ late)
    /\ UNCHANGED <<runNo, file, fx, startFile, durable, prev, allResume>>

(* ------------------------------------------------------ surface strategies *)

\* the diagnostic snapshot steps of a strategy (surfaces.py 53 and 123)
Milestone(mode, i) ==
    IF mode = "feed" THEN i \in {1, 5, 10, 25, 50} \/ i % 25 = 0
    ELSE i \in {1, 3, 5, 10, 25, 50} \/ i % 25 = 0

\* what one step can find on the page: the ids its links resolve to, the
\* end-of-results marker (the feed strategy never looks for it), and whether
\* reading the markup raised (only the feed strategy reads it)
PageChoices(mode) ==
    IF plan.replay
    THEN [hrefs : ReplayHrefs, end : BOOLEAN, err : {FALSE}]
    ELSE IF mode = "feed"
    THEN [hrefs : PageHrefs, end : {FALSE}, err : {FALSE}]
         \cup {[hrefs |-> <<>>, end |-> FALSE, err |-> TRUE]}
    ELSE [hrefs : PageHrefs, end : BOOLEAN, err : {FALSE}]

PagesAt(k) ==
    IF plan.replay /\ k <= Len(fxPages) THEN {fxPages[k]} ELSE PageChoices(args.mode)

\* the generator breaks right after its last yield (surfaces.py 62-65, 132-133)
StopsAfterYield ==
    /\ surf.scroll_index >= 1
    /\ \/ surf.end_seen
       \/ surf.no_new_streak >= args.stop_after_no_new

\* mutant of RangeExhausted: the loop of the strategy has no upper bound
RangeExhausted_never == FALSE

\* for scroll_index in range(1, budget.max_scrolls + 1) has no further value
\* (surfaces.py 37 and 103)
RangeExhausted == surf.scroll_index + 1 > args.max_scrolls

\* for ... in surf_iter: resume the generator up to its next yield
\* (surfaces.py 37-67 and 103-135)
SurfaceStep ==
    /\ pc = "iterate"
    /\ IF StopsAfterYield
       THEN /\ pc' = "final"
            /\ UNCHANGED <<exit_code, args, fxPages, dedup, loopv, env, verifyNavs,
                           verifyCalls, fault>>
       ELSE \E scrollOk \in BOOLEAN, dumpOk \in BOOLEAN :
            IF surf.scroll_index >= 1 /\ ~scrollOk
            THEN \* scroll_page raised
                 Raise("scroll_page") /\ UNCHANGED fxPages
            ELSE IF RangeExhausted
            THEN \* range(1, max_scrolls + 1) is exhausted
                 /\ pc' = "final"
                 /\ UNCHANGED <<exit_code, args, fxPages, dedup, loopv, env,
                                verifyNavs, verifyCalls, fault>>
            ELSE \E page \in PagesAt(surf.scroll_index + 1) :
              LET k      == surf.scroll_index + 1
                  pids   == stable_dedupe_in_order(page.hrefs)
                  new    == NewOf(pids, surf.seen)
                  streak == IF new # <<>> THEN 0 ELSE surf.no_new_streak + 1
              IN  /\ fxPages' = IF plan.replay /\ k > Len(fxPages)
                                THEN Append(fxPages, page) ELSE fxPages
                  /\ IF (page.err \/ Milestone(args.mode, k)) /\ ~dumpOk
                     THEN \* page_dump raised
                          Raise("page_dump")
                     ELSE IF page.err
                     THEN \* page.content() raised: snapshot, then break
                          /\ pc' = "final"
                          /\ fault' = "page.content"
                          /\ UNCHANGED <<exit_code, args, dedup, loopv, env,
                                         verifyNavs, verifyCalls>>
                     ELSE /\ pc' = "step" /\ exit_code' = -1
                          /\ UNCHANGED <<args, dedup, stats, discovered_order,
                                         seen_post_ids, verified_post_ids, env,
                                         verifyNavs, verifyCalls, verdict, fault>>
                          /\ surf' = [seen |-> surf.seen \cup Range(new),
                                      no_new_streak |-> streak,
                                      scroll_index |-> k,
                                      end_seen |-> page.end]
                          /\ new_pids' = new
    /\ UNCHANGED <<runNo, disk, scn, fxVerify, startFile, durable, prev,
                   allResume, entryLast>>

(* ------------------------------------------------------- ITERATE_SURFACE *)

\* mutant of stop_if_budget_or_time: no budget is ever consulted
stop_never == "none"

\* mutant of stop_if_budget_or_time: the wall clock is consulted first
stop_time_first ==
    IF expired THEN "max_minutes"
    ELSE IF Cardinality(verified_post_ids) >= args.max_posts THEN "max_posts"
    ELSE "none"

\* main() 128-133
stop_if_budget_or_time ==
    IF Cardinality(verified_post_ids) >= args.max_posts THEN "max_posts"
    ELSE IF expired THEN "max_minutes"
    ELSE "none"

\* mutant of BeginStep: a budget stop breaks without the checkpoint of line 197
BeginStep_no_checkpoint ==
    /\ pc = "step"
    /\ LET st1    == [stats EXCEPT !.scrolls = surf.scroll_index]
           reason == stop_if_budget_or_time
       IN  IF reason # "none"
           THEN /\ stats' = [st1 EXCEPT !.stopped_reason = reason]
                /\ pc' = "final"
           ELSE /\ stats' = IF surf.end_seen
                            THEN [st1 EXCEPT !.stopped_reason = "end_of_results"]
                            ELSE st1
                /\ pc' = "cand"
    /\ UNCHANGED <<exit_code, runNo, args, file, statsFile, dedup, discovered_order,
                   seen_post_ids, verified_post_ids, surf, new_pids, verdict, env,
                   entryLast, fx, ghost>>

\* main() 192-201: the head of the loop body
BeginStep ==
    /\ pc = "step"
    /\ LET st1    == [stats EXCEPT !.scrolls = surf.scroll_index]
           reason == stop_if_budget_or_time
       IN  IF reason # "none"
           THEN /\ stats' = [st1 EXCEPT !.stopped_reason = reason]
                /\ statsFile' = checkpoint_stats(stats')
                /\ pc' = "final"
           ELSE /\ stats' = IF surf.end_seen
                            THEN [st1 EXCEPT !.stopped_reason = "end_of_results"]
                            ELSE st1
                /\ UNCHANGED statsFile
                /\ pc' = "cand"
    /\ UNCHANGED <<exit_code, runNo, args, file, dedup, discovered_order,
                   seen_post_ids, verified_post_ids, surf, new_pids, verdict, env,
                   entryLast, fx, ghost>>

\* the wall clock passes budget.max_minutes
ClockExpires ==
    /\ pc \in {"iterate", "cand"}
    /\ ~expired
    /\ expired' = TRUE
    /\ UNCHANGED <<ctl, disk, dedup, loopv, entryTry, entryLast, fx, ghost>>

(* -------------------------------------------------------- VERIFY, RECORD *)

\* mutant of SkipByPostId: the id set is never consulted
SkipByPostId_never(pid) == FALSE

\* main() 211: the candidate is in the on-disk id set
SkipByPostId(pid) == pid \in existing_post_ids

\* mutant of SkipByUrl: the URL set is never consulted
SkipByUrl_never(post_url) == FALSE

\* main() 215: the candidate's canonical location is in the on-disk URL set
SkipByUrl(post_url) == post_url \in existing_urls

\* main() 223-229: the navigation raised, or the page is a wall / error page
NotReached(outcome) == outcome \in {"nav_timeout", "nav_exc", "wall", "fb_error"}

\* mutant of Verified: a candidate whose navigation timed out counts as verified
Verified_on_timeout(outcome) == outcome \in {"uid", "profile_url", "slug", "nav_timeout"}

\* mutant of Verified: every candidate counts as verified
Verified_always(outcome) == TRUE

\* verify_author was called and returned vr.verified
Verified(outcome) == outcome \in {"uid", "profile_url", "slug"}

\* what verify_author returned for pid: vr.verified is true exactly when
\* vr.method names a rule (verifier.py 88-141)
Returned(v, pid, outcome) ==
    IF NotReached(outcome) THEN v
    ELSE IF outcome = "none" THEN [v EXCEPT !.refuted = @ \cup {pid}]
    ELSE [v EXCEPT !.confirmed = @ \cup {pid}]

\* mutant of CountAttempt: the attempt is not counted
CountAttempt_never(st) == st

\* main() 219: stats["verify_attempts"] += 1
CountAttempt(st) == [st EXCEPT !.verify_attempts = @ + 1]

OutcomesFor(pid) ==
    IF plan.replay
    THEN (IF fxVerify[pid] # "unset" THEN {fxVerify[pid]} ELSE ReplayOutcomes)
    ELSE VerifyOutcomes

\* main() 203-269: one pass of "for pid in new_pids", up to and including the
\* append of the record
ProcessCandidate ==
    /\ pc = "cand"
    /\ new_pids # <<>>
    /\ LET pid  == Head(new_pids)
           rest == Tail(new_pids)
       IN
       /\ new_pids' = rest
       /\ IF pid \in seen_post_ids
          THEN UNCHANGED <<pc, file, stats, discovered_order, seen_post_ids,
                           verified_post_ids, fxVerify, verifyNavs, verifyCalls,
                           durable, verdict>>
          ELSE
            LET seen2    == seen_post_ids \cup {pid}
                order2   == discovered_order + 1
                st1      == [stats EXCEPT !.candidates_seen = Cardinality(seen2)]
                post_url == canonical_group_post_url(args.group_id, pid)
            IN
            /\ seen_post_ids' = seen2
            /\ discovered_order' = order2
            /\ IF SkipByPostId(pid)
               THEN /\ stats' = [st1 EXCEPT !.skipped_existing_post_id = @ + 1]
                    /\ UNCHANGED <<pc, file, verified_post_ids, fxVerify,
                                   verifyNavs, verifyCalls, durable, verdict>>
               ELSE IF SkipByUrl(post_url)
               THEN /\ stats' = [st1 EXCEPT !.skipped_existing = @ + 1]
                    /\ UNCHANGED <<pc, file, verified_post_ids, fxVerify,
                                   verifyNavs, verifyCalls, durable, verdict>>
               ELSE \E outcome \in OutcomesFor(pid) :
                    LET st2 == CountAttempt(st1)
                    IN
                    /\ fxVerify' = IF plan.replay THEN [fxVerify EXCEPT ![pid] = outcome]
                                   ELSE fxVerify
                    /\ verifyNavs' = verifyNavs + 1
                    /\ verifyCalls' = IF NotReached(outcome) THEN verifyCalls
                                      ELSE verifyCalls + 1
                    /\ verdict' = Returned(verdict, pid, outcome)
                    /\ IF ~Verified(outcome) \/ pid \in verified_post_ids
                       THEN /\ stats' = st2
                            /\ UNCHANGED <<pc, file, verified_post_ids, durable>>
                       ELSE LET ver2 == verified_post_ids \cup {pid}
                                st3  == [st2 EXCEPT !.verified_target_posts =
                                                       Cardinality(ver2)]
                            IN  /\ verified_post_ids' = ver2
                                /\ stats' = st3
                                /\ file' = append_jsonl(file,
                                             Row(args.group_id, pid, runNo,
                                                 surf.scroll_index, order2,
                                                 st3.verify_attempts, outcome,
                                                 args.mode))
                                /\ durable' =
                                     [urls |-> durable.urls \cup {post_url},
                                      pids |-> durable.pids \cup {pid}]
                                /\ pc' = "ckpt"
    /\ UNCHANGED <<exit_code, runNo, args, statsFile, dedup, surf, env, entryLast,
                   scn, fxPages, startFile, prev, allResume, fault>>

\* main() 270-277: checkpoint after the append, snapshot of the first three
CheckpointRecord ==
    /\ pc = "ckpt"
    /\ statsFile' = checkpoint_stats(stats)
    /\ \E dumpOk \in BOOLEAN :
         IF Cardinality(verified_post_ids) <= VerifiedDumpLimit /\ ~dumpOk
         THEN Raise("page_dump")
         ELSE /\ pc' = "cand" /\ exit_code' = -1
              /\ UNCHANGED <<args, dedup, loopv, env, verifyNavs, verifyCalls, fault>>
    /\ UNCHANGED <<runNo, file, fx, startFile, durable, prev, allResume, entryLast>>

\* main() 279-283: the end of the loop body
EndStep ==
    /\ pc = "cand"
    /\ new_pids = <<>>
    /\ statsFile' = checkpoint_stats(stats)
    /\ pc' = IF stats.stopped_reason = "end_of_results" THEN "final" ELSE "iterate"
    /\ UNCHANGED <<exit_code, runNo, args, file, dedup, loopv, env, entryLast, fx,
                   ghost>>

\* main() 285-294: final snapshot, close, return 0
Finish ==
    /\ pc = "final"
    /\ \E dumpOk \in BOOLEAN :
         IF dumpOk
         THEN \* main returns 0; RunStats is what it printed and checkpointed
              /\ pc' = "done" /\ exit_code' = 0
              /\ existing_urls' = {} /\ existing_post_ids' = {}
              /\ discovered_order' = 0
              /\ seen_post_ids' = {} /\ verified_post_ids' = {}
              /\ surf' = BlankSurf /\ new_pids' = <<>>
              /\ UNCHANGED <<args, stats, env, verifyNavs, verifyCalls, verdict,
                             fault>>
         ELSE Raise("page_dump")
    /\ UNCHANGED <<runNo, disk, fx, startFile, durable, prev, allResume, entryLast>>

\* the process is killed between two operations: its memory is gone, the
\* files stay as they are
Kill ==
    /\ pc \in RunningPcs
    /\ pc' = "killed" /\ exit_code' = 137
    /\ args' = ArgsAfterEnd
    /\ existing_urls' = {} /\ existing_post_ids' = {}
    /\ ResetLoop
    /\ UNCHANGED <<runNo, disk, fx, startFile, durable, prev, allResume, entryLast,
                   fault>>

\* between two runs: of the ended process nothing remains but the output
\* file; the next run gets a debug directory of its own
Settle ==
    /\ pc \in EndedPcs \ {"idle"}
    /\ plan.replay => pc \in {"done", "exit"}
    /\ pc' = "idle" /\ exit_code' = -1
    /\ args' = ArgsAfterEnd
    /\ file' = [i \in 1..Len(file) |-> AsRead(file[i])]
    /\ startFile' = file'
    /\ statsFile' = NoStats
    /\ existing_urls' = {} /\ existing_post_ids' = {}
    /\ ResetLoop
    /\ entryLast' = "none"
    /\ prev' = IF plan.replay
               THEN [pc |-> pc, reason |-> stats.stopped_reason, exit_code |-> exit_code]
               ELSE [pc |-> IF pc = "killed" THEN "killed" ELSE "ended",
                     reason |-> "none", exit_code |-> -1]
    /\ cli' = NoCli /\ fault' = "none"
    /\ UNCHANGED <<runNo, plan, probe, fxPages, fxVerify, durable, allResume>>

Next ==
    \/ StartRun
    \/ EntryTry
    \/ SurfaceStep
    \/ BeginStep
    \/ ClockExpires
    \/ ProcessCandidate
    \/ CheckpointRecord
    \/ EndStep
    \/ Finish
    \/ Kill
    \/ Settle

Spec == Init /\ [][Next]_vars

\* the statements of a started main() and of the strategy: when every driver
\* call and every pause returns, the process goes on to its next statement
RunStep ==
    \/ EntryTry
    \/ SurfaceStep
    \/ BeginStep
    \/ ProcessCandidate
    \/ CheckpointRecord
    \/ EndStep
    \/ Finish

\* the output files of the runs checked for termination: none, and one that
\* holds the record of post 10
FairFiles == {<<>>, <<OldRow("5", "10", canonical_group_post_url("5", "10"))>>}

\* one run in which no call hangs
SpecFair ==
    /\ InitWith([runs |-> 1, replay |-> FALSE, cli |-> FALSE], FairFiles)
    /\ [][Next]_vars
    /\ WF_vars(RunStep)

\* successive runs on the same output file, each possibly killed
SpecRestart ==
    InitWith([runs |-> MaxRuns, replay |-> FALSE, cli |-> FALSE], {<<>>}) /\ [][Next]_vars

\* two runs in succession (the second starts when the first has returned)
\* with the same mocked surface, Budget and arguments
SpecReplay ==
    InitWith([runs |-> 2, replay |-> TRUE, cli |-> FALSE], {<<>>}) /\ [][Next]_vars

\* one run started with any command line, on an output file that does not
\* exist yet
SpecStart ==
    InitWith([runs |-> 1, replay |-> FALSE, cli |-> TRUE], {<<>>}) /\ [][Next]_vars

(* ------------------------------------------------ canonicalize_url alone *)

\* the tokens of the location strings canonicalize_url is applied to
UrlTokens == {"http", "HTTP", "x", "/", "?", "#", ";", ":"}

UrlStrings == UNION {[1..n -> UrlTokens] : n \in 0..MaxUrlLen}

InitCanon ==
    /\ Idle([runs |-> 0, replay |-> FALSE, cli |-> FALSE], {<<>>})
    /\ \E u \in UrlStrings :
         probe = [op |-> "canonicalize_url", calls |-> 0, arg |-> u, out |-> u]

\* canonicalize_url(arg)
CanonicalizeArg ==
    /\ probe.op = "canonicalize_url" /\ probe.calls = 0
    /\ probe' = [probe EXCEPT !.calls = 1, !.out = canonicalize_url(probe.arg)]
    /\ UNCHANGED <<ctl, disk, dedup, loopv, env, entryLast, plan, cli, fxPages,
                   fxVerify, ghost>>

\* canonicalize_url of the result of the first call
CanonicalizeResult ==
    /\ probe.op = "canonicalize_url" /\ probe.calls = 1
    /\ probe' = [probe EXCEPT !.calls = 2, !.arg = probe.out,
                              !.out = canonicalize_url(probe.out)]
    /\ UNCHANGED <<ctl, disk, dedup, loopv, env, entryLast, plan, cli, fxPages,
                   fxVerify, ghost>>

NextCanon == CanonicalizeArg \/ CanonicalizeResult

SpecCanon == InitCanon /\ [][NextCanon]_vars

(* ---------------------------------------------------- verify_author alone *)

WwwOrigin == <<"https", ":", "/", "/", "www.facebook.com">>

\* the target identities: a profile location with or without the numeric id
Targets ==
    { [url |-> WwwOrigin \o <<"/", "john">>, uid |-> <<"100">>],
      [url |-> <<"http", ":", "/", "/", "www.facebook.com", "/", "john", "/">>,
       uid |-> <<>>],
      [url |-> WwwOrigin \o <<"/", "profile.php", "?", "id", "=", "100">>,
       uid |-> <<"100">>] }

\* href attributes a rendered page can carry
Hrefs ==
    { <<"/", "john">>,
      WwwOrigin \o <<"/", "john", "ny">>,
      <<"/", "groups", "/", "5", "/", "user", "/", "john", "/">>,
      <<"/", "groups", "/", "5", "/", "user", "/", "john", "ny">>,
      <<"/", "profile.php", "?", "id", "=", "100">>,
      <<"/", "profile.php", "?", "ref", "=", "x", "&", "id", "=", "200">>,
      <<"/", "mary">>,
      <<"HTTP", ":", "/", "/", "www.facebook.com", "/", "JOHN", "/", "?", "ref", "=",
        "x", "#", "x">> }

NoField == [kind |-> "none", enc |-> "num", value |-> <<>>, after |-> "delim"]

\* the markup page.content() returns, as far as the actorID patterns see it:
\* no actorID field, one field, or page.content() raises
Markups ==
    { NoField, [NoField EXCEPT !.kind = "unreadable"] }
    \cup [kind : {"actor"}, enc : {"num", "str"},
          value : {<<"100">>, <<"200">>, <<"100", "7">>}, after : {"delim", "word"}]

\* the first author-like link is one of the page's links, unless the
\* enumeration of the links fails or no selector finds it
Pages ==
    {pg \in [markup : Markups, author : Hrefs \cup {<<>>},
             hrefs : UNION {[1..n -> Hrefs] : n \in 0..MaxLinks}] :
        pg.author = <<>> \/ pg.hrefs = <<>> \/ pg.author \in Range(pg.hrefs)}

NoResult == VerificationResult(FALSE, "unset", {})

InitVerify ==
    /\ Idle([runs |-> 0, replay |-> FALSE, cli |-> FALSE], {<<>>})
    /\ \E pg \in Pages, t \in Targets :
         probe = [op |-> "verify_author", calls |-> 0, page |-> pg, target |-> t,
                  out |-> NoResult, prior |-> NoResult]

\* vr = verify_author(page, target_profile_url=..., target_uid=...)
VerifyPage ==
    /\ probe.op = "verify_author" /\ probe.calls = 0
    /\ probe' = [probe EXCEPT
                   !.calls = 1,
                   !.out = verify_author(probe.page, probe.target.url, probe.target.uid)]
    /\ UNCHANGED <<ctl, disk, dedup, loopv, env, entryLast, plan, cli, fxPages,
                   fxVerify, ghost>>

\* a second call on the same page content with the same target
VerifyPageAgain ==
    /\ probe.op = "verify_author" /\ probe.calls = 1
    /\ probe' = [probe EXCEPT
                   !.calls = 2,
                   !.prior = probe.out,
                   !.out = verify_author(probe.page, probe.target.url, probe.target.uid)]
    /\ UNCHANGED <<ctl, disk, dedup, loopv, env, entryLast, plan, cli, fxPages,
                   fxVerify, ghost>>

NextVerify == VerifyPage \/ VerifyPageAgain

SpecVerify == InitVerify /\ [][NextVerify]_vars

(* -------------------------------------------- checkpoint_stats and a reader *)

\* the status file of a run and the names of its directory
StatsName == "stats.json"

\* mutant of tmp_path: the text is written to the status file itself
tmp_is_path(path) == path

\* common.py 132: tmp = path.parent / (path.name + ".tmp")
tmp_path(path) == IF path = StatsName THEN "stats.json.tmp" ELSE "other.tmp"

DirNames == {StatsName, tmp_path(StatsName)}

\* json.dumps(stats, indent=2) + "\n" of the v-th checkpoint, piece by piece
TextOf(v) == [i \in 1..TextChunks |-> v]

\* no file object: the name is not in the directory, or nothing is open
NoFile == 0

\* a directory without status file; no checkpoint is being written and the
\* reader has nothing open. File objects are numbered by the checkpoint that
\* created them.
InitCheckpoint ==
    /\ Idle([runs |-> 0, replay |-> FALSE, cli |-> FALSE], {<<>>})
    /\ probe = [op        |-> "checkpoint_stats",
                dir       |-> [n \in DirNames |-> NoFile],
                data      |-> [f \in 1..MaxWrites |-> <<>>],
                writes    |-> 0,
                committed |-> 0,
                w         |-> [pc |-> "idle", fd |-> NoFile],
                r         |-> [pc |-> "idle", fd |-> NoFile, buf |-> <<>>,
                               missing |-> FALSE, lo |-> 0]]

Unused ==
    UNCHANGED <<ctl, disk, dedup, loopv, env, entryLast, plan, cli, fxPages,
                fxVerify, ghost>>

\* common.py 133, tmp.write_text: open(tmp, "w") creates the file or empties
\* the one a killed writer left under that name
atomic_write_text_open ==
    /\ probe.op = "checkpoint_stats"
    /\ probe.w.pc = "idle" /\ probe.writes < MaxWrites
    /\ LET v   == probe.writes + 1
           tmp == tmp_path(StatsName)
           fd  == IF probe.dir[tmp] = NoFile THEN v ELSE probe.dir[tmp]
       IN  probe' = [probe EXCEPT !.writes = v,
                                  !.dir[tmp] = fd,
                                  !.data[fd] = <<>>,
                                  !.w = [pc |-> "writing", fd |-> fd]]
    /\ Unused

\* common.py 133, tmp.write_text: one more piece of the text reaches the file
atomic_write_text_write ==
    /\ probe.op = "checkpoint_stats"
    /\ probe.w.pc = "writing"
    /\ Len(probe.data[probe.w.fd]) < TextChunks
    /\ probe' = [probe EXCEPT !.data[probe.w.fd] = Append(@, probe.writes)]
    /\ Unused

\* common.py 134, tmp.replace(path): rename(2) puts the file object of tmp
\* under the name of the status file in one step
atomic_write_text_replace ==
    /\ probe.op = "checkpoint_stats"
    /\ probe.w.pc = "writing"
    /\ Len(probe.data[probe.w.fd]) = TextChunks
    /\ LET tmp == tmp_path(StatsName)
           d1  == [probe.dir EXCEPT ![StatsName] = probe.dir[tmp]]
           d2  == IF tmp = StatsName THEN d1 ELSE [d1 EXCEPT ![tmp] = NoFile]
       IN  probe' = [probe EXCEPT !.dir = d2,
                                  !.committed = probe.writes,
                                  !.w = [pc |-> "idle", fd |-> NoFile]]
    /\ Unused

\* the writing process is killed before the rename; a process started within
\* the same second has the same run id and writes to the same directory
WriterKilled ==
    /\ probe.op = "checkpoint_stats"
    /\ probe.w.pc = "writing"
    /\ probe' = [probe EXCEPT !.w = [pc |-> "idle", fd |-> NoFile]]
    /\ Unused

\* the reader opens the status file by name
ReaderOpens ==
    /\ probe.op = "checkpoint_stats"
    /\ probe.r.pc = "idle"
    /\ LET fd == probe.dir[StatsName]
       IN  probe' = [probe EXCEPT
                       !.r = [pc |-> IF fd = NoFile THEN "done" ELSE "reading",
                              fd |-> fd, buf |-> <<>>, missing |-> (fd = NoFile),
                              lo |-> probe.committed]]
    /\ Unused

\* the reader reads the next piece of the file it has open, up to its end
ReaderReads ==
    /\ probe.op = "checkpoint_stats"
    /\ probe.r.pc = "reading"
    /\ LET have == Len(probe.r.buf)
           text == probe.data[probe.r.fd]
       IN  probe' = IF have < Len(text)
                    THEN [probe EXCEPT !.r.buf = Append(@, text[have + 1])]
                    ELSE [probe EXCEPT !.r.pc = "done"]
    /\ Unused

\* the reader closes the file; it may read again
ReaderCloses ==
    /\ probe.op = "checkpoint_stats"
    /\ probe.r.pc = "done"
    /\ probe' = [probe EXCEPT !.r = [pc |-> "idle", fd |-> NoFile, buf |-> <<>>,
                                     missing |-> FALSE, lo |-> probe.committed]]
    /\ Unused

NextCheckpoint ==
    \/ atomic_write_text_open
    \/ atomic_write_text_write
    \/ atomic_write_text_replace
    \/ WriterKilled
    \/ ReaderOpens
    \/ ReaderReads
    \/ ReaderCloses

\* checkpoint writes of one status file, interleaved with a reader
SpecCheckpoint == InitCheckpoint /\ [][NextCheckpoint]_vars

(* ------------------------------------------------------------ properties *)

\* records appended to the output file by the current run
Appended == Len(file) - Len(startFile)

\* C1: in every run with max_posts = N the verified count of RunStats and the
\* number of records the run appended never exceed N.
C1_MaxPostsNeverExceeded ==
    pc \in RunningPcs \cup {"done"} =>
        /\ stats.verified_target_posts <= args.max_posts
        /\ Appended <= args.max_posts

\* C2: a run that the strategy halts after stop_after_no_new consecutive steps
\* without a new candidate (no end marker, posts, minutes and scrolls not
\* exhausted) records stopped_reason = stop_after_no_new in RunStats and in
\* the last checkpoint.
C2_NoNewStopReason ==
    ( /\ pc = "final"
      /\ surf.no_new_streak >= args.stop_after_no_new
      /\ ~surf.end_seen
      /\ ~expired
      /\ Cardinality(verified_post_ids) < args.max_posts
      /\ surf.scroll_index < args.max_scrolls ) =>
        /\ stats.stopped_reason = "stop_after_no_new"
        /\ statsFile.written
        /\ statsFile.stopped_reason = "stop_after_no_new"

\* C3: a run started with resume never appends a record whose canonical_url
\* or post_id is that of a well-formed record the file held at its start.
C3_ResumeNeverReemits ==
    (args.resume /\ pc \in RunningPcs \cup {"done", "exit"}) =>
        \A i \in (Len(startFile) + 1)..Len(file) :
            /\ file[i].post_id \notin KeysOf(startFile).pids
            /\ file[i].canonical_url \notin KeysOf(startFile).urls

\* a resumed run skipped a candidate found on disk and appended another one
C3_Witness ==
    /\ pc = "ckpt" /\ args.resume
    /\ stats.skipped_existing_post_id + stats.skipped_existing >= 1
    /\ Appended >= 1

\* C4 as stated: the second of two runs in succession on the same file, same
\* fixtures and Budget, resume enabled, appends no record (here even with a
\* wall clock that reaches max_minutes in neither run).
C4_SecondRunAppendsNothing_AsStated ==
    ( /\ plan.replay /\ runNo = 2 /\ args.resume
      /\ prev.pc = "done" /\ prev.reason # "max_minutes" /\ ~expired ) =>
        Appended = 0

\* C4: if the first run returned 0 with a stop reason other than max_posts and
\* max_minutes, the second run (same fixtures, Budget and arguments, resume
\* enabled, no overwrite) appends no record.
C4_SecondRunAppendsNothing ==
    ( /\ plan.replay /\ runNo = 2 /\ args.resume
      /\ prev.pc = "done"
      /\ prev.reason \notin {"max_posts", "max_minutes"} ) =>
        Appended = 0

\* the second run met, and skipped, what the first run had recorded
C4_Witness ==
    /\ plan.replay /\ runNo = 2 /\ args.resume /\ pc = "done"
    /\ prev.pc = "done" /\ prev.reason \notin {"max_posts", "max_minutes"}
    /\ Len(startFile) >= 1
    /\ stats.skipped_existing_post_id >= 1

\* C5: over runs on the same file that were all started with resume, each
\* possibly killed, no two records share (group_id, post_id).
C5_AtMostOneRecordPerPost ==
    allResume =>
        \A i, j \in 1..Len(file) :
            ( /\ file[i].kind = "rec" /\ file[j].kind = "rec"
              /\ file[i].group_id = file[j].group_id
              /\ file[i].post_id = file[j].post_id ) => i = j

\* after a kill, a resumed run skipped a recorded post and appended a new one
C5_Witness ==
    /\ allResume /\ runNo = 2 /\ prev.pc = "killed"
    /\ Len(startFile) >= 1 /\ Appended >= 1
    /\ stats.skipped_existing_post_id >= 1

\* C6: the id set and the URL set a resumed run loads are exactly the post_id
\* and canonical_url values of the records whose append completed.
C6_RestartDedupeState ==
    (pc = "entry" /\ args.resume) =>
        /\ existing_post_ids = durable.pids
        /\ existing_urls = durable.urls

\* a run restarted with resume after a kill that followed a completed append
C6_Witness ==
    /\ pc = "entry" /\ args.resume /\ runNo = 2 /\ prev.pc = "killed"
    /\ durable.pids # {}

\* C7: a newly seen candidate whose id is in the on-disk id set causes no
\* verification navigation and no verify_author call, adds one to
\* skipped_existing_post_id and leaves verify_attempts, skipped_existing and
\* verified_target_posts alone; one absent from the id set whose canonical URL
\* is in the on-disk URL set adds one to skipped_existing only.
C7_SkipFrame ==
    [][ ( /\ pc = "cand" /\ new_pids # <<>>
          /\ Head(new_pids) \notin seen_post_ids
          /\ pc' \in {"cand", "ckpt"}
          /\ new_pids' = Tail(new_pids) ) =>
        LET pid      == Head(new_pids)
            post_url == canonical_group_post_url(args.group_id, pid)
            quiet    == /\ verifyNavs' = verifyNavs
                        /\ verifyCalls' = verifyCalls
                        /\ file' = file
                        /\ stats'.verify_attempts = stats.verify_attempts
                        /\ stats'.verified_target_posts = stats.verified_target_posts
        IN  IF pid \in existing_post_ids
            THEN /\ quiet
                 /\ stats'.skipped_existing_post_id = stats.skipped_existing_post_id + 1
                 /\ stats'.skipped_existing = stats.skipped_existing
            ELSE IF post_url \in existing_urls
            THEN /\ quiet
                 /\ stats'.skipped_existing = stats.skipped_existing + 1
                 /\ stats'.skipped_existing_post_id = stats.skipped_existing_post_id
            ELSE TRUE ]_vars

\* one run skipped a candidate by id and another by URL, and verified nothing
C7_Witness ==
    /\ pc = "cand"
    /\ stats.skipped_existing_post_id = 1 /\ stats.skipped_existing = 1
    /\ stats.verify_attempts = 0 /\ verifyNavs = 0

\* C9: canonicalize_url(canonicalize_url(u)) = canonicalize_url(u) for every
\* location string u.
C9_Idempotent ==
    (probe.op = "canonicalize_url" /\ probe.calls = 2) => probe.out = probe.arg

\* the markup holds an actorID field equal to uid, in either encoding
ActorFieldEquals(markup, uid) ==
    /\ markup.kind = "actor" /\ uid # <<>> /\ markup.value = uid
    /\ (markup.enc = "str" \/ markup.after = "delim")

\* the page has an author link and none of the three tests accepts it
AuthorLinkMisses(page, target) ==
    /\ page.author # <<>>
    /\ HrefTest(page.author, target.uid,
                lower(strip_query_fragment(rstrip(replace_http(target.url)))),
                lower(normalize_target_slug(target.url))) = "none"

\* C8: two calls of verify_author on the same page content and target return
\* the same (verified, method), and a page whose markup holds an actorID field
\* equal to the target id and whose author link does not match the target
\* returns (verified = true, method = uid).
C8_ActorFieldFirst ==
    (probe.op = "verify_author" /\ probe.calls = 2) =>
        /\ probe.out.verified = probe.prior.verified
        /\ probe.out.method = probe.prior.method
        /\ ( /\ ActorFieldEquals(probe.page.markup, probe.target.uid)
             /\ AuthorLinkMisses(probe.page, probe.target) ) =>
               (probe.out.verified /\ probe.out.method = "uid")

\* C10: a run whose entry navigation succeeded on a page showing the login
\* wall ends with exit code 3, no record appended, no verification attempt,
\* no strategy step, and a last checkpoint with candidates_seen = 0.
C10_LoginWallExit3 ==
    (entryLast = "login_wall" /\ pc \in EndedPcs \ {"idle"}) =>
        /\ exit_code = 3
        /\ Appended = 0
        /\ verifyNavs = 0 /\ verifyCalls = 0
        /\ stats.scrolls = 0
        /\ statsFile.written
        /\ statsFile.candidates_seen = 0

\* the records the current run appended, in file order
AppendedRows == SubSeq(file, Len(startFile) + 1, Len(file))

\* C11: in a run without resume the records appended are exactly one per
\* candidate of a processed step for which verify_author returned
\* verified = true, and none for a candidate for which it returned false.
C11_RecordsAreTheConfirmed ==
    (pc \in RunningPcs \cup {"done"} /\ ~args.resume) =>
        LET recs == AppendedRows
        IN  /\ {recs[i].post_id : i \in 1..Len(recs)} = verdict.confirmed
            /\ \A i, j \in 1..Len(recs) : recs[i].post_id = recs[j].post_id => i = j
            /\ \A i \in 1..Len(recs) : recs[i].post_id \notin verdict.refuted

\* a run without resume saw "10" and "11" in its first step and nothing new in
\* its second, only "11" was confirmed, and it ended with the one record of "11"
C11_Witness ==
    /\ pc = "done" /\ ~args.resume
    /\ stats.scrolls = 2 /\ stats.candidates_seen = 2
    /\ verdict = [confirmed |-> {"11"}, refuted |-> {"10"}]
    /\ Appended = 1 /\ file[Len(file)].post_id = "11"

\* C12: in every record appended, evidence.method names the verification
\* rule that fired for the candidate (uid, profile_url or slug): it equals the
\* method of the VerificationResult, which the record keeps as
\* evidence.verification_method.
C12_MethodNamesRule ==
    pc \in RunningPcs \cup {"done"} =>
        \A i \in 1..Len(AppendedRows) :
            /\ AppendedRows[i].method \in {"uid", "profile_url", "slug"}
            /\ AppendedRows[i].method = AppendedRows[i].verification_method

\* the stop conditions as they stand when a step is handed to the loop body,
\* in the order max_posts, max_minutes, end_of_results, stop_after_no_new
StopConditions ==
    << <<"max_posts", Cardinality(verified_post_ids) >= args.max_posts>>,
       <<"max_minutes", expired>>,
       <<"end_of_results", surf.end_seen>>,
       <<"stop_after_no_new", surf.no_new_streak >= args.stop_after_no_new>> >>

HoldingConditions == {i \in 1..4 : StopConditions[i][2]}

FirstHolding ==
    StopConditions[CHOOSE i \in HoldingConditions : \A j \in HoldingConditions : i <= j][1]

Counters ==
    {"scrolls", "candidates_seen", "verify_attempts", "verified_target_posts",
     "skipped_existing", "skipped_existing_post_id"}

C15_ReaderSeesWholeFile ==
    (probe.op = "checkpoint_stats" /\ probe.r.pc = "done") =>
        IF probe.r.missing THEN probe.r.lo = 0
        ELSE \E v \in 1..MaxWrites :
                /\ probe.r.buf = TextOf(v)
                /\ probe.r.lo <= v /\ v <= probe.committed

\* the reader opened the first checkpoint, the second one was written and
\* renamed into place while it was reading, and it read the first one whole
C15_Witness ==
    /\ probe.op = "checkpoint_stats" /\ probe.r.pc = "done"
    /\ probe.r.buf = TextOf(1) /\ probe.committed = 2 /\ probe.w.pc = "writing"

\* C16: the output file is append-only during a run: after INIT every
\* operation of the orchestrator leaves the existing lines as they are and
\* adds at most one line, so the file as the run found it after INIT stays a
\* prefix of the file.
C16_AppendOnly ==
    /\ [][ (pc \in RunningPcs) =>
               /\ Len(file') \in {Len(file), Len(file) + 1}
               /\ SubSeq(file', 1, Len(file)) = file ]_vars
    /\ [](pc # "idle" =>
             /\ Len(startFile) <= Len(file)
             /\ SubSeq(file, 1, Len(startFile)) = startFile)

\* a run that found two lines in the file has appended a record behind them
C16_Witness ==
    /\ pc \in RunningPcs \cup {"done"}
    /\ Len(startFile) = 2 /\ Appended >= 1
    /\ SubSeq(file, 1, 2) = startFile
    /\ file[3].kind = "rec" /\ file[3].run = runNo

\* C17: load_existing_frontier never fails the run: on a file mixing records,
\* empty lines, unparsable text and JSON values that are no objects it skips
\* the malformed lines and returns exactly the canonical_url and post_id
\* values of the records.
C17_LoadNeverFails ==
    /\ fault # "load_existing_frontier"
    /\ (pc \in RunningPcs /\ args.resume) =>
          /\ existing_urls = KeysOf(startFile).urls
          /\ existing_post_ids = KeysOf(startFile).pids

\* the entry location was never navigated to and no strategy was driven
NothingNavigated ==
    /\ entryTry = 0 /\ entryLast = "none" /\ verifyNavs = 0
    /\ surf = BlankSurf /\ stats.scrolls = 0

\* C18: an explicit mode is used as given; in auto mode a group URL with a
\* target id selects profile_group_posts (with or without a query), a group URL
\* with a query and no target id selects group_search, the feed strategy is
\* never selected, and without a group URL the run ends with a non-zero exit
\* code before any navigation and without driving a strategy. The target id
\* is the one main() works with: --target-uid without surrounding blanks.
C18_ModeResolution ==
    LET hg  == have_group(cli)
        uid == target_uid_of(cli)
    IN  /\ (pc \in RunningPcs \cup {"exit", "done"}) =>
              /\ cli.mode # "auto" => args.mode = cli.mode
              /\ (cli.mode = "auto" /\ hg /\ uid # "") =>
                    args.mode = "profile_group_posts"
              /\ (cli.mode = "auto" /\ hg /\ cli.query # "" /\ uid = "") =>
                    args.mode = "group_search"
              /\ cli.mode = "auto" => args.mode # "feed"
        /\ (pc # "idle" /\ cli.mode = "auto" /\ ~hg) =>
              /\ pc \in {"exit", "crashed"} /\ exit_code \in {1, 2}
              /\ NothingNavigated

\* the group URL of the command line holds no numeric parent-surface id
UnparsableGroup ==
    have_group(cli) /\ parse_group_id(canonicalize_url(cli.group_url)).raised

\* C19: an invalid required input, in particular a group URL from which no
\* numeric id can be parsed, ends the run with exit code 2 before any
\* navigation, reported by main() and not as an exception leaving it.
C19_InvalidInputExit2 ==
    /\ (pc # "idle" /\ UnparsableGroup) =>
          /\ pc = "exit" /\ exit_code = 2 /\ fault = "none"
          /\ NothingNavigated
    /\ exit_code = 2 => (pc = "exit" /\ fault = "none" /\ NothingNavigated)

\* C20: a navigation fault on the primary handle in the middle of a run (the
\* scroll action or the markup read of a strategy step raises) never leaves
\* the orchestrator as an exception: the run checkpoints RunStats and ends
\* with exit code 4.
C20_NavigationFaultExit4 ==
    (fault \in {"scroll_page", "page.content"} /\ pc \in {"done", "exit", "crashed"}) =>
        /\ pc = "exit" /\ exit_code = 4
        /\ statsFile = checkpoint_stats(stats)

\* C21: whenever the orchestrator ends with a non-zero exit code after its
\* initial checkpoint (the entry could not be loaded, the entry shows the
\* authentication wall), the last checkpointed RunStats carries a stop reason.
C21_FailureHasStopReason ==
    (pc = "exit" /\ exit_code = 3) =>
        /\ statsFile.written
        /\ statsFile.stopped_reason # "none"

\* C22: if at the start of a step the verified count is at least max_posts or
\* the clock has passed max_minutes, the orchestrator halts without navigating
\* the verification handle, without calling verify_author and without changing
\* candidates_seen for any candidate of that step; with max_posts = 0 no
\* verification is ever attempted.
C22_HaltBeforeVerification ==
    /\ [][ /\ (pc = "step" /\ pc' # "killed"
                /\ (Cardinality(verified_post_ids) >= args.max_posts \/ expired)) =>
                    /\ pc' = "final"
                    /\ verifyNavs' = verifyNavs /\ verifyCalls' = verifyCalls
                    /\ stats'.candidates_seen = stats.candidates_seen
                    /\ stats'.verify_attempts = stats.verify_attempts
                    /\ seen_post_ids' = seen_post_ids /\ new_pids' = new_pids
                    /\ file' = file
           /\ (pc = "final" /\ pc' = "done") =>
                    /\ verifyNavs' = verifyNavs /\ verifyCalls' = verifyCalls
                    /\ stats' = stats /\ file' = file ]_vars
    /\ []((pc \in RunningPcs \cup {"done"} /\ args.max_posts = 0) =>
             /\ verifyNavs = 0 /\ verifyCalls = 0 /\ stats.verify_attempts = 0)

\* a step that yielded candidates was halted at its start because max_posts = 1
\* posts were already verified; its candidates were left alone
C22_Witness ==
    /\ pc = "final" /\ args.max_posts = 1
    /\ stats.stopped_reason = "max_posts"
    /\ new_pids # <<>> /\ Head(new_pids) \notin seen_post_ids
    /\ verifyNavs = 1

\* C23: once the wall clock has passed max_minutes no further verification
\* attempt is started: the remaining candidates of the current step are not
\* navigated to and verify_attempts does not grow.
C23_NoVerificationAfterDeadline ==
    [][ expired =>
          /\ verifyNavs' <= verifyNavs
          /\ stats'.verify_attempts <= stats.verify_attempts ]_vars

\* C24: at LOAD_ENTRY an entry page that shows the authentication wall or a
\* platform-error page stops the run with exit code 3 without the entry
\* location being navigated again (only timeouts and navigation exceptions are
\* retried), and at most 4 entry navigations are made.
C24_WallAndErrorNotRetried ==
    /\ (entryLast \in {"login_wall", "fb_error"} /\ pc \notin {"crashed", "killed"}) =>
          (pc = "exit" /\ exit_code = 3)
    /\ entryTry <= EntryTries

\* the step navigates the verification handle to a candidate and does not get
\* to call verify_author: the navigation timed out or raised, or the page is a
\* wall or an error page
CandidateNotReached == verifyNavs' = verifyNavs + 1 /\ verifyCalls' = verifyCalls

\* C25: a navigation timeout or error on the verification handle, or a wall or
\* error page at the candidate location, affects only that candidate: the
\* attempt is counted in verify_attempts, no record is appended and nothing is
\* verified, the candidate counts as seen (it is not tried again), and the loop
\* goes on with the remaining candidates of the step with nothing else changed.
C25_FailedCandidateIsSkipped ==
    [][ CandidateNotReached =>
          /\ stats'.verify_attempts = stats.verify_attempts + 1
          /\ file' = file /\ verified_post_ids' = verified_post_ids
          /\ stats'.verified_target_posts = stats.verified_target_posts
          /\ stats'.stopped_reason = stats.stopped_reason
          /\ verdict' = verdict
          /\ seen_post_ids' = seen_post_ids \cup {Head(new_pids)}
          /\ new_pids' = Tail(new_pids)
          /\ pc' = "cand" /\ exit_code' = -1 /\ fault' = fault
          /\ surf' = surf /\ expired' = expired /\ statsFile' = statsFile ]_vars

\* the first candidate of a run could not be reached; the second was then
\* verified and recorded as the run's second attempt
C25_Witness ==
    /\ pc = "ckpt" /\ verifyNavs = 2 /\ verifyCalls = 1
    /\ Appended = 1
    /\ file[Len(file)].discovered_order = 2 /\ file[Len(file)].verify_attempt = 2
    /\ stats.verify_attempts = 2 /\ stats.verified_target_posts = 1

\* C26: within one run each candidate id is handed to verification at most
\* once, also when the surface shows it again at a later step: the candidates
\* a step hands over are ids the run has not seen, every navigation of the
\* verification handle is for an id neither seen nor verified before (the
\* guard "already in the verified set" is never taken), and no two records the
\* run appends carry the same id.
C26_VerifiedAtMostOnce ==
    /\ [](pc \in RunningPcs =>
            /\ \A i \in 1..Len(new_pids) : new_pids[i] \notin seen_post_ids
            /\ \A i, j \in 1..Len(new_pids) : new_pids[i] = new_pids[j] => i = j
            /\ verified_post_ids \subseteq seen_post_ids
            /\ verifyNavs <= Cardinality(seen_post_ids)
            /\ \A i, j \in 1..Len(AppendedRows) :
                  AppendedRows[i].post_id = AppendedRows[j].post_id => i = j)
    /\ [][ verifyNavs' = verifyNavs + 1 =>
             /\ Head(new_pids) \notin seen_post_ids \cup verified_post_ids
             /\ seen_post_ids' = seen_post_ids \cup {Head(new_pids)} ]_vars

\* the page showed "10" at the first step and "10" and "11" at the second;
\* "10" was refuted at the first step and not navigated to again, "11" was
\* verified and recorded
C26_Witness ==
    /\ runNo = 1 /\ pc = "done" /\ Len(fxPages) = 2
    /\ fxPages[1].hrefs = <<"10">> /\ fxPages[2].hrefs = <<"10", "11">>
    /\ fxVerify["10"] = "none" /\ fxVerify["11"] = "uid"
    /\ verifyNavs = 2 /\ Appended = 1

\* C27: with a target id supplied, a markup whose actorID field equals the id
\* in either encoding, followed by a delimiter, makes verify_author return
\* (verified = true, method = uid, matched id = target id); an actorID field
\* holding another id, also one the target id is a proper prefix of, does not
\* satisfy the rule.
C27_ActorFieldBothEncodings ==
    (probe.op = "verify_author" /\ probe.calls >= 1) =>
        LET markup == probe.page.markup
            uid    == probe.target.uid
        IN  /\ ( /\ uid # <<>> /\ markup.kind = "actor"
                 /\ markup.value = uid /\ markup.after = "delim" ) =>
                   probe.out = VerificationResult(TRUE, "uid", {uid})
            /\ (markup.kind = "actor" /\ markup.value # uid) =>
                   ~html_actorid_match(probe.page, uid)

\* the slug is a complete segment, or sequence of segments, of the path
SlugIsSegment(path, slug) ==
    \E i \in 1..Len(path) :
        LET j == i + Len(slug) + 1
        IN  /\ j - 1 <= Len(path)
            /\ SubSeq(path, i, j - 1) = <<"/">> \o slug
            /\ (j = Len(path) + 1 \/ path[j] = "/")

LinksOf(page) == Range(page.hrefs) \cup (IF page.author = <<>> THEN {} ELSE {page.author})

\* C28: verify_author returns method slug only when the target slug is a
\* complete path segment of some link's path; a link whose path holds the slug
\* only as the beginning of a longer segment does not verify by method slug.
C28_SlugIsWholeSegment ==
    (probe.op = "verify_author" /\ probe.calls >= 1 /\ probe.out.method = "slug") =>
        LET t_slug == lower(normalize_target_slug(probe.target.url))
        IN  \E h \in LinksOf(probe.page) :
                SlugIsSegment(urlparse(NormHref(href_to_abs(h))).path, t_slug)

\* the target as verify_author normalises it
TargetFull(target) == lower(strip_query_fragment(rstrip(replace_http(target.url))))

TargetSlug(target) == lower(normalize_target_slug(target.url))

\* neither the actor field nor the first author-like link confirms
ScanIsReachedFor(page, t_uid, t_full, t_slug) ==
    /\ ~(t_uid # <<>> /\ html_actorid_match(page, t_uid))
    /\ \/ page.author = <<>>
       \/ HrefTest(page.author, t_uid, t_full, t_slug) = "none"

ScanIsReached(page, target) ==
    ScanIsReachedFor(page, target.uid, TargetFull(target), TargetSlug(target))

\* the test the i-th link of the page satisfies first
LinkTest(page, target, i) ==
    HrefTest(page.hrefs[i], target.uid, TargetFull(target), TargetSlug(target))

\* the result is that of the first link with a test in tests, a sequence of
\* the test each link satisfies first
FirstHitDecides(hrefs, tests, out) ==
    \A k \in 1..Len(tests) :
        (tests[k] # "none" /\ \A j \in 1..(k - 1) : tests[j] = "none") =>
            /\ out.verified
            /\ out.method = tests[k]
            /\ (\A i \in 1..k : extract_profile_id_from_href(href_to_abs(hrefs[i])) = <<>>)
               => out.author_uid_found = {<<>>}

ScanDecidesFor(page, t_uid, t_full, t_slug, out) ==
    ScanIsReachedFor(page, t_uid, t_full, t_slug) =>
        FirstHitDecides(page.hrefs,
                        [i \in 1..Len(page.hrefs) |->
                            HrefTest(page.hrefs[i], t_uid, t_full, t_slug)],
                        out)

StrategyContinues ==
    /\ ~surf.end_seen
    /\ surf.no_new_streak < args.stop_after_no_new
    /\ surf.scroll_index < args.max_scrolls

\* C30: whenever the strategy is resumed after its step k (the step of the model
\* that leads from iterate to step, final or crashed), a step it yields has
\* index k + 1, and for k >= 1 it yields one if and only if no end marker was
\* seen at step k, the streak of steps without new candidate is below
\* stop_after_no_new and k < max_scrolls; otherwise nothing more is yielded.
C30_StrategyStepSequence ==
    [][ (pc = "iterate" /\ pc' \in {"step", "final", "crashed"}) =>
          /\ (pc' = "step") => surf'.scroll_index = surf.scroll_index + 1
          /\ (surf.scroll_index >= 1) => ((pc' = "step") <=> StrategyContinues) ]_vars

\* C31: a failure while capturing a diagnostic snapshot is swallowed: no run
\* is ended by an exception of page_dump.
C31_SnapshotFailureSwallowed ==
    ~(pc = "crashed" /\ fault = "page_dump")

\* C32: on every exit path after the initial checkpoint (return 0, 2 or 3) the
\* checkpoint on disk equals the RunStats in memory, in every field.
C32_CheckpointEqualsStatsAtExit ==
    (pc \in {"done", "exit"}) => statsFile = stats

\* a run stopped by the budget at its second step, after one record
C32_Witness ==
    /\ pc = "done" /\ exit_code = 0
    /\ stats.stopped_reason = "max_posts" /\ stats.scrolls = 2
    /\ stats.verified_target_posts = 1 /\ Appended = 1
    /\ statsFile = stats

\* C33: for every location string u, canonicalize_url(u) has no query string
\* and no fragment and ends with exactly one slash.
C33_SingleTrailingSlash ==
    (probe.op = "canonicalize_url" /\ probe.calls = 1) =>
        /\ ~contains(probe.out, <<"?">>)
        /\ ~contains(probe.out, <<"#">>)
        /\ endswith(probe.out, <<"/">>)
        /\ ~endswith(probe.out, <<"/", "/">>)

\* the location ends with exactly one slash and has neither query nor fragment
CleanLocation(u) ==
    /\ ~contains(u, <<"?">>) /\ ~contains(u, <<"#">>)
    /\ endswith(u, <<"/">>) /\ ~endswith(u, <<"/", "/">>)

\* C34: every appended record has the canonical_url its own group_id and
\* post_id give, without query string and with exactly one trailing slash, and
\* two appended records agree on canonical_url exactly when they agree on
\* (group_id, post_id).
C34_CanonicalUrlOfRecord ==
    \A i \in 1..Len(AppendedRows) :
        LET r == AppendedRows[i]
        IN  /\ r.canonical_url = canonical_group_post_url(r.group_id, r.post_id)
            /\ CleanLocation(r.canonical_url)
            /\ \A j \in 1..Len(AppendedRows) :
                   (AppendedRows[j].canonical_url = r.canonical_url)
                   <=> ( /\ AppendedRows[j].group_id = r.group_id
                         /\ AppendedRows[j].post_id = r.post_id )

\* one run has appended the records of two posts
C34_Witness ==
    /\ Len(AppendedRows) = 2
    /\ AppendedRows[1].post_id # AppendedRows[2].post_id
    /\ AppendedRows[1].canonical_url # AppendedRows[2].canonical_url
    /\ AppendedRows[1].canonical_url =
           <<"https", ":", "/", "/", "www.facebook.com", "/", "groups", "/", "5",
             "/", "posts", "/", AppendedRows[1].post_id, "/">>

\* the target is addressed by a profile.php?id=N location and N is its id
NumericTarget(target) ==
    /\ target.uid # <<>>
    /\ extract_profile_id_from_href(target.url) = target.uid

\* the page carries evidence for the id: an actor field equal to it or a link
\* whose profile id is it
EvidenceFor(page, uid) ==
    \/ page.markup.kind = "actor" /\ page.markup.value = uid
    \/ \E h \in LinksOf(page) : extract_profile_id_from_href(href_to_abs(h)) = uid

\* C35: for a target addressed by profile.php?id=N with N supplied as target
\* id, verify_author reports verified only if the page carries evidence for N;
\* without such evidence the result is verified = false, method = none.
C35_NumericTargetNeedsItsId ==
    ( /\ probe.op = "verify_author" /\ probe.calls >= 1
      /\ NumericTarget(probe.target)
      /\ ~EvidenceFor(probe.page, probe.target.uid) ) =>
        (~probe.out.verified /\ probe.out.method = "none")

\* the checkpoint on disk carries a stop reason
StopReasonOnDisk == statsFile.written /\ statsFile.stopped_reason # "none"

\* C36: in every step of a running process, once the checkpoint on disk
\* carries a stop reason no verification navigation is made and no record is
\* appended, and a stop reason that is set in RunStats does not change.
C36_NothingAfterStopReason ==
    [][ (pc \in RunningPcs /\ pc' \in RunningPcs \cup {"done", "exit"}) =>
          /\ StopReasonOnDisk => (verifyNavs' = verifyNavs /\ file' = file)
          /\ (stats.stopped_reason # "none") =>
                 stats'.stopped_reason = stats.stopped_reason ]_vars

\* C37: at every checkpoint written, every newly seen candidate is counted in
\* exactly one of the skip and attempt counters, candidates_seen =
\* skipped_existing_post_id + skipped_existing + verify_attempts, and
\* verified_target_posts <= verify_attempts.
C37_CountersBalance ==
    statsFile.written =>
        /\ statsFile.candidates_seen =
               statsFile.skipped_existing_post_id + statsFile.skipped_existing
               + statsFile.verify_attempts
        /\ statsFile.verified_target_posts <= statsFile.verify_attempts

\* a checkpoint of a resumed run that skipped one candidate found on disk and
\* verified the other
C37_Witness ==
    /\ statsFile.written /\ pc \in RunningPcs
    /\ statsFile.candidates_seen = 2
    /\ statsFile.skipped_existing_post_id + statsFile.skipped_existing = 1
    /\ statsFile.verify_attempts = 1 /\ statsFile.verified_target_posts = 1

\* C38: at every instant of a run, also when it has been killed or has ended,
\* verified_target_posts of the checkpoint on disk is at most the number of
\* records the run has appended and at least that number minus one.
C38_CheckpointLagsByAtMostOne ==
    (pc # "idle") =>
        LET onDisk == IF statsFile.written THEN statsFile.verified_target_posts ELSE 0
        IN  onDisk <= Appended /\ Appended <= onDisk + 1

\* the run was killed after it had appended its second record and before the
\* checkpoint that follows the append
C38_Witness ==
    /\ pc = "killed"
    /\ Appended = 2
    /\ statsFile.written /\ statsFile.verified_target_posts = 1

\* C39: every run terminates, after at most max_scrolls strategy steps;
\* RunStats.scrolls never exceeds max_scrolls, and with max_scrolls = 0 the run
\* makes no step, no verification attempt and no record.
C39_RunTerminates ==
    /\ [](pc \in RunningPcs \cup {"done", "exit"} =>
            /\ surf.scroll_index <= args.max_scrolls
            /\ stats.scrolls <= args.max_scrolls
            /\ (args.max_scrolls = 0) =>
                   /\ stats.scrolls = 0 /\ stats.verify_attempts = 0
                   /\ verifyNavs = 0 /\ Appended = 0)
    /\ (pc \in RunningPcs) ~> (pc \in EndedPcs)

\* a run that returned after its strategy had made all max_scrolls steps
C39_Witness ==
    /\ pc = "done" /\ exit_code = 0
    /\ args.max_scrolls = MaxScrolls /\ stats.scrolls = MaxScrolls
    /\ stats.stopped_reason = "none"

====
